---------------------------- MODULE Spec2Model ----------------------------
(***************************************************************************)
(* The calculator of client/src/features/calculator: the reducer of        *)
(* useCalculator.ts (calculatorReducer) over the arithmetic engine of      *)
(* calculatorEngine.ts (calculate, fixFloatingPointPrecision,              *)
(* formatDisplay, parseInput, calculatePercent, toggleSign).               *)
(*                                                                         *)
(* A JavaScript number is an IEEE-754 binary64 value.  It is modelled      *)
(* exactly: a finite non-zero value is neg, m, e with m an odd natural     *)
(* number of at most 53 bits and value (-1)^neg * m * 2^e.  Naturals       *)
(* wider than the checker's integers are little-endian sequences of limbs  *)
(* in base 2^15.  +0 and -0 are one value: no code path of the engine      *)
(* tells them apart (=== 0, toString and Math.abs all agree on them).      *)
(* A string is a sequence of one-character strings.                        *)
(***************************************************************************)
EXTENDS Integers, Sequences, FiniteSets, TLC

(***************************************************************************)
(* Natural numbers of any width.                                           *)
(***************************************************************************)
BASE == 2 ^ 15

Max(a, b) == IF a >= b THEN a ELSE b

Min(a, b) == IF a <= b THEN a ELSE b

RECURSIVE BNorm(_)
BNorm(a) ==
  IF a = <<>> THEN a
  ELSE IF a[Len(a)] = 0 THEN BNorm(SubSeq(a, 1, Len(a) - 1)) ELSE a

RECURSIVE BFromInt(_)
BFromInt(n) == IF n = 0 THEN <<>> ELSE <<n % BASE>> \o BFromInt(n \div BASE)

RECURSIVE BAddC(_, _, _)
BAddC(a, b, c) ==
  IF a = <<>> /\ b = <<>> THEN (IF c = 0 THEN <<>> ELSE <<c>>)
  ELSE IF b = <<>> /\ c = 0 THEN a
  ELSE IF a = <<>> /\ c = 0 THEN b
  ELSE LET x == (IF a = <<>> THEN 0 ELSE Head(a))
                + (IF b = <<>> THEN 0 ELSE Head(b)) + c
       IN  <<x % BASE>> \o BAddC(IF a = <<>> THEN a ELSE Tail(a),
                                 IF b = <<>> THEN b ELSE Tail(b),
                                 x \div BASE)

BAdd(a, b) == BAddC(a, b, 0)

\* a - b for a >= b
RECURSIVE BSubC(_, _, _)
BSubC(a, b, c) ==
  IF a = <<>> THEN <<>>
  ELSE IF b = <<>> /\ c = 0 THEN a
  ELSE LET x == Head(a) - (IF b = <<>> THEN 0 ELSE Head(b)) - c
       IN  <<x % BASE>> \o BSubC(Tail(a),
                                 IF b = <<>> THEN b ELSE Tail(b),
                                 IF x < 0 THEN 1 ELSE 0)

BSub(a, b) == BNorm(BSubC(a, b, 0))

RECURSIVE BCmpAt(_, _, _)
BCmpAt(a, b, i) ==
  IF i = 0 THEN 0
  ELSE IF a[i] > b[i] THEN 1
  ELSE IF a[i] < b[i] THEN -1
  ELSE BCmpAt(a, b, i - 1)

\* -1, 0, 1 as a < b, a = b, a > b
BCmp(a, b) ==
  IF Len(a) > Len(b) THEN 1
  ELSE IF Len(a) < Len(b) THEN -1
  ELSE BCmpAt(a, b, Len(a))

\* a * k + c for 0 <= k <= BASE
RECURSIVE BMulSmallC(_, _, _)
BMulSmallC(a, k, c) ==
  IF a = <<>> THEN (IF c = 0 THEN <<>> ELSE <<c>>)
  ELSE LET x == Head(a) * k + c
       IN  <<x % BASE>> \o BMulSmallC(Tail(a), k, x \div BASE)

BMulSmall(a, k) == IF k = 0 THEN <<>> ELSE BMulSmallC(a, k, 0)

RECURSIVE BMul(_, _)
BMul(a, b) ==
  IF a = <<>> \/ b = <<>> THEN <<>>
  ELSE BAdd(BMulSmall(a, Head(b)),
            LET t == BMul(a, Tail(b)) IN IF t = <<>> THEN t ELSE <<0>> \o t)

\* quotient and remainder of a by k, 0 < k <= BASE; i runs from the top limb
RECURSIVE BDivSmallAt(_, _, _, _, _)
BDivSmallAt(a, k, i, r, q) ==
  IF i = 0 THEN [q |-> BNorm(q), r |-> r]
  ELSE LET x == r * BASE + a[i]
       IN  BDivSmallAt(a, k, i - 1, x % k, <<x \div k>> \o q)

BDivSmall(a, k) == BDivSmallAt(a, k, Len(a), 0, <<>>)

RECURSIVE Zeros(_)
Zeros(n) == IF n = 0 THEN <<>> ELSE <<0>> \o Zeros(n - 1)

\* a * 2^k
BShl(a, k) ==
  IF a = <<>> THEN a
  ELSE Zeros(k \div 15) \o BMulSmall(a, 2 ^ (k % 15))

\* floor(a / 2^k)
BShr(a, k) ==
  IF k \div 15 >= Len(a) THEN <<>>
  ELSE BDivSmall(SubSeq(a, (k \div 15) + 1, Len(a)), 2 ^ (k % 15)).q

RECURSIVE BitLenInt(_)
BitLenInt(n) == IF n = 0 THEN 0 ELSE 1 + BitLenInt(n \div 2)

BBitLen(a) == IF a = <<>> THEN 0 ELSE (Len(a) - 1) * 15 + BitLenInt(a[Len(a)])

BIsOdd(a) == a # <<>> /\ a[1] % 2 = 1

\* the number of trailing zero bits of a # 0
RECURSIVE TzInt(_)
TzInt(n) == IF n % 2 = 1 THEN 0 ELSE 1 + TzInt(n \div 2)

RECURSIVE BTz(_)
BTz(a) == IF Head(a) = 0 THEN 15 + BTz(Tail(a)) ELSE TzInt(Head(a))

\* the greatest t in lo..hi with d * t <= r, where d * lo <= r
RECURSIVE BQuotDigit(_, _, _, _)
BQuotDigit(r, d, lo, hi) ==
  IF lo = hi THEN lo
  ELSE LET mid == (lo + hi + 1) \div 2
       IN  IF BCmp(BMulSmall(d, mid), r) <= 0
           THEN BQuotDigit(r, d, mid, hi)
           ELSE BQuotDigit(r, d, lo, mid - 1)

\* long division of n by d, one limb of n at a time from the top
RECURSIVE BDivAt(_, _, _, _, _)
BDivAt(n, d, i, r, q) ==
  IF i = 0 THEN [q |-> BNorm(q), r |-> r]
  ELSE LET r1 == BNorm(<<n[i]>> \o r)
           t  == IF BCmp(r1, d) < 0 THEN 0 ELSE BQuotDigit(r1, d, 1, BASE - 1)
           r2 == IF t = 0 THEN r1 ELSE BSub(r1, BMulSmall(d, t))
           q2 == <<t>> \o q
       IN  IF Len(q2) + Len(r2) >= 0 THEN BDivAt(n, d, i - 1, r2, q2) ELSE <<>>

\* quotient and remainder of n by d (d # 0)
BDivMod(n, d) == BDivAt(n, d, Len(n), <<>>, <<>>)

RECURSIVE BPow10(_)
BPow10(n) ==
  IF n = 0 THEN <<1>>
  ELSE IF n >= 4 THEN BMulSmall(BPow10(n - 4), 10000)
  ELSE BMulSmall(BPow10(n - 1), 10)

\* the natural number written by the decimal digits ds (most significant first)
RECURSIVE BFromDigitsAt(_, _, _)
BFromDigitsAt(ds, i, acc) ==
  IF i > Len(ds) THEN acc
  ELSE LET a2 == BMulSmallC(acc, 10, ds[i])
       IN  IF Len(a2) >= 0 THEN BFromDigitsAt(ds, i + 1, a2) ELSE <<>>

BFromDigits(ds) == BFromDigitsAt(ds, 1, <<>>)

\* the decimal digits of a (most significant first); <<>> for 0
RECURSIVE BToDigits(_)
BToDigits(a) ==
  IF a = <<>> THEN <<>>
  ELSE LET dm == BDivSmall(a, 10) IN Append(BToDigits(dm.q), dm.r)

(***************************************************************************)
(* binary64 values.                                                        *)
(***************************************************************************)
DZero == [k |-> "zero", neg |-> FALSE, m |-> <<>>, e |-> 0]

DNaN == [k |-> "nan", neg |-> FALSE, m |-> <<>>, e |-> 0]

DInf(neg) == [k |-> "inf", neg |-> neg, m |-> <<>>, e |-> 0]

\* the least exponent of a binary64 value: the least positive one is 2^-1074
DMinExp == 0 - 1074

\* the finite value m * 2^e (m of at most 53 bits), or an infinity past 2^1024
DCanon(neg, m, e) ==
  IF m = <<>> THEN DZero
  ELSE IF BBitLen(m) + e > 1024 THEN DInf(neg)
  ELSE LET tz == BTz(m) IN [k |-> "fin", neg |-> neg, m |-> BShr(m, tz), e |-> e + tz]

\* m0 * 2^e moved to the nearer neighbour: c is -1, 0, 1 as the part cut off
\* is below, at or above one half, and the tie goes to the even significand
DRoundTo(neg, sticky, e, m0, c) ==
  DCanon(neg,
         IF c > 0 \/ (c = 0 /\ (sticky \/ BIsOdd(m0))) THEN BAdd(m0, <<1>>) ELSE m0,
         e)

\* q with its drop low bits cut off, m0 = floor(q / 2^drop), and rounded
DRoundCut(neg, q, sticky, e, drop, m0) ==
  DRoundTo(neg, sticky, e + drop, m0,
           BCmp(BSub(q, BShl(m0, drop)), BShl(<<1>>, drop - 1)))

DRoundDrop(neg, q, sticky, e, drop) ==
  IF drop <= 0 THEN DCanon(neg, q, e)
  ELSE DRoundCut(neg, q, sticky, e, drop, BShr(q, drop))

\* (q + f) * 2^e rounded to the nearest binary64 value, ties to even, where
\* 0 <= f < 1 and f > 0 iff sticky
DRound(neg, q, sticky, e) ==
  DRoundDrop(neg, q, sticky, e, Max(BBitLen(q) - 53, DMinExp - e))

DNeg(a) == IF a.k \in {"fin", "inf"} THEN [a EXCEPT !.neg = ~a.neg] ELSE a

DAbs(a) == [a EXCEPT !.neg = FALSE]

DIsFinite(a) == a.k \in {"fin", "zero"}

\* the sum of two finite non-zero values
DAddFin(a, b) ==
  LET lo == Min(a.e, b.e)
      x  == BShl(a.m, a.e - lo)
      y  == BShl(b.m, b.e - lo)
      c  == BCmp(x, y)
  IN  IF a.neg = b.neg THEN DRound(a.neg, BAdd(x, y), FALSE, lo)
      ELSE IF c = 0 THEN DZero
      ELSE IF c > 0 THEN DRound(a.neg, BSub(x, y), FALSE, lo)
      ELSE DRound(b.neg, BSub(y, x), FALSE, lo)

DAdd(a, b) ==
  IF a.k = "nan" \/ b.k = "nan" THEN DNaN
  ELSE IF a.k = "inf" THEN (IF b.k = "inf" /\ b.neg # a.neg THEN DNaN ELSE a)
  ELSE IF b.k = "inf" THEN b
  ELSE IF a.k = "zero" THEN b
  ELSE IF b.k = "zero" THEN a
  ELSE DAddFin(a, b)

DSub(a, b) == DAdd(a, DNeg(b))

DMul(a, b) ==
  IF a.k = "nan" \/ b.k = "nan" THEN DNaN
  ELSE IF a.k = "inf" \/ b.k = "inf"
       THEN (IF a.k = "zero" \/ b.k = "zero" THEN DNaN ELSE DInf(a.neg # b.neg))
  ELSE IF a.k = "zero" \/ b.k = "zero" THEN DZero
  ELSE DRound(a.neg # b.neg, BMul(a.m, b.m), FALSE, a.e + b.e)

\* n / d rounded, scaled by 2^e: the quotient is taken to 56 bits or more
DRoundQuot(neg, n, d, e) ==
  LET k  == Max(0, 56 + BBitLen(d) - BBitLen(n))
      dm == BDivMod(BShl(n, k), d)
  IN  DRound(neg, dm.q, dm.r # <<>>, e - k)

DDiv(a, b) ==
  IF a.k = "nan" \/ b.k = "nan" THEN DNaN
  ELSE IF a.k = "inf" THEN (IF b.k = "inf" THEN DNaN ELSE DInf(a.neg # b.neg))
  ELSE IF b.k = "inf" THEN DZero
  ELSE IF b.k = "zero" THEN (IF a.k = "zero" THEN DNaN ELSE DInf(a.neg))
  ELSE IF a.k = "zero" THEN DZero
  ELSE DRoundQuot(a.neg # b.neg, a.m, b.m, a.e - b.e)

\* -1, 0, 1 as |a| < |b|, |a| = |b|, |a| > |b|, for finite a and b
DCmpMag(a, b) ==
  IF a.k = "zero" THEN (IF b.k = "zero" THEN 0 ELSE -1)
  ELSE IF b.k = "zero" THEN 1
  ELSE LET ta == BBitLen(a.m) + a.e
           tb == BBitLen(b.m) + b.e
           lo == Min(a.e, b.e)
       IN  IF ta > tb THEN 1
           ELSE IF ta < tb THEN -1
           ELSE BCmp(BShl(a.m, a.e - lo), BShl(b.m, b.e - lo))

\* |a| < |b| and |a| > |b| as JavaScript's < and > on Math.abs: false on NaN
DAbsLt(a, b) ==
  IF a.k = "nan" \/ b.k = "nan" THEN FALSE
  ELSE IF a.k = "inf" THEN FALSE
  ELSE IF b.k = "inf" THEN TRUE
  ELSE DCmpMag(a, b) < 0

DAbsGt(a, b) == DAbsLt(b, a)

\* the value of the decimal literal ds * 10^x (ds: digits, most significant
\* first), as the language reads a numeric literal or string
DFromDec(neg, ds, x) ==
  LET i  == BFromDigits(ds)
      nd == Len(BToDigits(i))
  IN  IF i = <<>> THEN DZero
      ELSE IF nd + x > 310 THEN DInf(neg)
      ELSE IF nd + x < 0 - 330 THEN DZero
      ELSE IF x >= 0 THEN DRound(neg, BMul(i, BPow10(x)), FALSE, 0)
      ELSE DRoundQuot(neg, i, BPow10(0 - x), 0)

DInt(n) == DRound(n < 0, BFromInt(IF n < 0 THEN 0 - n ELSE n), FALSE, 0)

(***************************************************************************)
(* Decimal conversions of the language: Number::toString (the shortest     *)
(* digits that read back as the same value), toExponential, toPrecision    *)
(* and parseFloat.                                                         *)
(***************************************************************************)
DigitChars == <<"0", "1", "2", "3", "4", "5", "6", "7", "8", "9">>

IsDigit(c) == \E i \in 1..10 : DigitChars[i] = c

DigitVal(c) == (CHOOSE i \in 1..10 : DigitChars[i] = c) - 1

DigitsToStr(ds) == [i \in 1..Len(ds) |-> DigitChars[ds[i] + 1]]

StrToDigits(cs) == [i \in 1..Len(cs) |-> DigitVal(cs[i])]

\* the decimal digits of a small natural number, "0" for 0
IntToStr(n) == IF n = 0 THEN <<"0">> ELSE DigitsToStr(BToDigits(BFromInt(n)))

RECURSIVE ZeroChars(_)
ZeroChars(n) == IF n <= 0 THEN <<>> ELSE <<"0">> \o ZeroChars(n - 1)

\* |v| * 10^p as a fraction n / d, for finite v # 0
DecRat(v, p) ==
  LET n0 == IF v.e >= 0 THEN BShl(v.m, v.e) ELSE v.m
      d0 == IF v.e >= 0 THEN <<1>> ELSE BShl(<<1>>, 0 - v.e)
  IN  IF p >= 0 THEN [n |-> BMul(n0, BPow10(p)), d |-> d0]
      ELSE [n |-> n0, d |-> BMul(d0, BPow10(0 - p))]

\* -1, 0, 1 as |v| is below, at or above 10^j
CmpPow10(v, j) == LET f == DecRat(v, 0 - j) IN BCmp(f.n, f.d)

\* the k with 10^(k-1) <= |v| < 10^k, for finite v # 0
DecExp(v) ==
  LET t == BBitLen(v.m) + v.e - 1
      f == (t * 30103) \div 100000
  IN  IF CmpPow10(v, f) < 0 THEN f
      ELSE IF CmpPow10(v, f + 1) >= 0 THEN f + 2
      ELSE f + 1

\* the quotient and remainder dm of the fraction f: q, whether the fraction
\* is whole, and how its rest compares with one half
DecCutDivMod(f, dm) ==
  [q |-> dm.q, exact |-> dm.r = <<>>, half |-> BCmp(BMulSmall(dm.r, 2), f.d)]

DecCutRat(f) == DecCutDivMod(f, BDivMod(f.n, f.d))

\* |v| cut to n significant digits: q = floor(|v| * 10^(n-k)), and how the
\* rest r/d compares with one half (-1 below, 0 tie, 1 above); exact iff r = 0
DecCut(v, n, k) == DecCutRat(DecRat(v, n - k))

\* n digits s and exponent k for the value s * 10^(k-n): the digits of the
\* natural number q (n digits, or n+1 digits when q = 10^n)
DecOf(q, n, k) ==
  LET ds == BToDigits(q)
  IN  IF Len(ds) > n THEN [ds |-> SubSeq(ds, 1, n), k |-> k + 1]
      ELSE [ds |-> ds, k |-> k]

DecRoundCut(c, n, k) == DecOf(IF c.half >= 0 THEN BAdd(c.q, <<1>>) ELSE c.q, n, k)

DecRoundAt(v, n, k) == DecRoundCut(DecCut(v, n, k), n, k)

\* |v| rounded to n significant digits, a tie going up (toExponential and
\* toPrecision: "pick the larger n")
DecRoundHalfUp(v, n) == DecRoundAt(v, n, DecExp(v))

\* the choice between the n-digit decimals q below and q + 1 above |v|, of
\* which okLo and okHi say whether they read back as v: of two, the nearer,
\* and the even one on a tie
ShortestOk(c, okLo, okHi, n, k) ==
  IF \/ c.exact
     \/ okLo /\ okHi /\ (c.half < 0 \/ (c.half = 0 /\ ~BIsOdd(c.q)))
     \/ okLo /\ ~okHi
  THEN DecOf(c.q, n, k)
  ELSE IF okHi THEN DecOf(BAdd(c.q, <<1>>), n, k)
  ELSE [ds |-> <<>>, k |-> k]

ShortestCut(a, c, n, k) ==
  ShortestOk(c,
             c.exact \/ DFromDec(FALSE, BToDigits(c.q), k - n) = a,
             ~c.exact /\ DFromDec(FALSE, BToDigits(BAdd(c.q, <<1>>)), k - n) = a,
             n, k)

\* the n-digit decimal nearest below or above |v| that reads back as v, if any
\* (ds = <<>> if none); of two, the nearer, and the even one on a tie
ShortestAt(v, n, k) == ShortestCut(DAbs(v), DecCut(v, n, k), n, k)

\* the least n in lo..hi at which ShortestAt finds digits, given that it does
\* at hi: if an n-digit decimal reads back as v, so does an (n+1)-digit one
RECURSIVE ShortestIn(_, _, _, _)
ShortestIn(v, lo, hi, k) ==
  IF lo >= hi THEN ShortestAt(v, hi, k)
  ELSE LET mid == (lo + hi) \div 2
       IN  IF ShortestAt(v, mid, k).ds # <<>> THEN ShortestIn(v, lo, mid, k)
           ELSE ShortestIn(v, mid + 1, hi, k)

\* 17 digits always read back; most values here have three digits or fewer
RECURSIVE ShortestFrom(_, _, _)
ShortestTry(v, n, k, r) ==
  IF r.ds # <<>> THEN r
  ELSE IF n >= 3 THEN ShortestIn(v, 4, 17, k)
  ELSE ShortestFrom(v, n + 1, k)

\* the digits of the least n or more that read back as v
ShortestFrom(v, n, k) == ShortestTry(v, n, k, ShortestAt(v, n, k))

RECURSIVE StripZeros(_)
StripZeros(ds) ==
  IF Len(ds) > 1 /\ ds[Len(ds)] = 0 THEN StripZeros(SubSeq(ds, 1, Len(ds) - 1))
  ELSE ds

StripResult(r) == [ds |-> StripZeros(r.ds), k |-> r.k]

\* the shortest digits of |v| and its exponent k: |v| = 0.d1d2..dn * 10^k
Shortest(v) == StripResult(ShortestFrom(v, 1, DecExp(v)))

InfinityStr == <<"I", "n", "f", "i", "n", "i", "t", "y">>

ExpStr(e) == <<"e">> \o (IF e < 0 THEN <<"-">> \o IntToStr(0 - e) ELSE <<"+">> \o IntToStr(e))

\* the digits cs, n of them, with the exponent k as Number::toString lays
\* them out
LayOut(cs, n, k) ==
  IF n <= k /\ k <= 21 THEN cs \o ZeroChars(k - n)
  ELSE IF 0 < k /\ k <= 21
       THEN SubSeq(cs, 1, k) \o <<".">> \o SubSeq(cs, k + 1, n)
  ELSE IF 0 - 6 < k /\ k <= 0 THEN <<"0", ".">> \o ZeroChars(0 - k) \o cs
  ELSE IF n = 1 THEN cs \o ExpStr(k - 1)
  ELSE <<cs[1], ".">> \o SubSeq(cs, 2, n) \o ExpStr(k - 1)

LayOutShortest(r) == LayOut(DigitsToStr(r.ds), Len(r.ds), r.k)

SignChars(v) == IF v.neg THEN <<"-">> ELSE <<>>

\* Number::toString(v), radix 10
NumberToString(v) ==
  IF v.k = "nan" THEN <<"N", "a", "N">>
  ELSE IF v.k = "zero" THEN <<"0">>
  ELSE IF v.k = "inf" THEN SignChars(v) \o InfinityStr
  ELSE SignChars(v) \o LayOutShortest(Shortest(v))

\* the digits r.ds, f + 1 of them, in exponential notation
LayOutRounded(r, f) ==
  DigitsToStr(<<r.ds[1]>>) \o <<".">> \o DigitsToStr(SubSeq(r.ds, 2, f + 1))
    \o ExpStr(r.k - 1)

\* Number.prototype.toExponential(f) for f >= 1
ToExponential(v, f) ==
  IF v.k = "nan" THEN <<"N", "a", "N">>
  ELSE IF v.k = "inf" THEN SignChars(v) \o InfinityStr
  ELSE IF v.k = "zero" THEN <<"0", ".">> \o ZeroChars(f) \o ExpStr(0)
  ELSE SignChars(v) \o LayOutRounded(DecRoundHalfUp(v, f + 1), f)

ValueOfRounded(neg, r, p) == DFromDec(neg, r.ds, r.k - p)

\* Number(v.toPrecision(p)): the value of v rounded to p significant digits
NumberOfToPrecision(v, p) ==
  IF v.k # "fin" THEN v ELSE ValueOfRounded(v.neg, DecRoundHalfUp(v, p), p)

\* the length of the run of decimal digits of cs from position i on
RECURSIVE DigitRun(_, _)
DigitRun(cs, i) ==
  IF i <= Len(cs) /\ IsDigit(cs[i]) THEN 1 + DigitRun(cs, i + 1) ELSE 0

HasAt(cs, i, c) == i <= Len(cs) /\ cs[i] = c

RECURSIVE StripLeadingZeroChars(_)
StripLeadingZeroChars(cs) ==
  IF cs # <<>> /\ Head(cs) = "0" THEN StripLeadingZeroChars(Tail(cs)) ELSE cs

\* the value of an exponent's digits; past five digits every value reads as
\* an infinity or a zero, as 99999 does
ExpVal(cs) ==
  LET t == StripLeadingZeroChars(cs)
  IN  IF t = <<>> THEN 0
      ELSE IF Len(t) > 5 THEN 99999
      ELSE LET ds == StrToDigits(t)
           IN  ds[Len(ds)]
               + (IF Len(ds) >= 2 THEN 10 * ds[Len(ds) - 1] ELSE 0)
               + (IF Len(ds) >= 3 THEN 100 * ds[Len(ds) - 2] ELSE 0)
               + (IF Len(ds) >= 4 THEN 1000 * ds[Len(ds) - 3] ELSE 0)
               + (IF Len(ds) >= 5 THEN 10000 * ds[Len(ds) - 4] ELSE 0)

\* parseFloat(cs): the value of the longest prefix of cs that is a decimal
\* literal (sign, digits, fraction, exponent) or Infinity; NaN if there is none
ParseFloat(cs) ==
  LET sgn  == IF HasAt(cs, 1, "-") \/ HasAt(cs, 1, "+") THEN 1 ELSE 0
      neg  == HasAt(cs, 1, "-")
      i0   == sgn + 1
      ni   == DigitRun(cs, i0)
      dot  == HasAt(cs, i0 + ni, ".")
      nf   == IF dot THEN DigitRun(cs, i0 + ni + 1) ELSE 0
      j    == i0 + ni + (IF dot THEN 1 + nf ELSE 0)
      hasE == HasAt(cs, j, "e") \/ HasAt(cs, j, "E")
      es   == IF hasE /\ (HasAt(cs, j + 1, "-") \/ HasAt(cs, j + 1, "+")) THEN 1 ELSE 0
      ne   == IF hasE THEN DigitRun(cs, j + 1 + es) ELSE 0
      ex   == IF ne = 0 THEN 0
              ELSE IF HasAt(cs, j + 1, "-")
                   THEN 0 - ExpVal(SubSeq(cs, j + 1 + es, j + es + ne))
              ELSE ExpVal(SubSeq(cs, j + 1 + es, j + es + ne))
      ds   == StrToDigits(SubSeq(cs, i0, i0 + ni - 1)
                          \o SubSeq(cs, i0 + ni + 1, i0 + ni + nf))
  IN  IF Len(cs) >= i0 + 7 /\ SubSeq(cs, i0, i0 + 7) = InfinityStr THEN DInf(neg)
      ELSE IF ni + nf = 0 THEN DNaN
      ELSE DFromDec(neg, ds, ex - nf)

(***************************************************************************)
(* constants.ts                                                            *)
(***************************************************************************)
MAX_INPUT_DIGITS == 15

MAX_DISPLAY_DIGITS == 12

MAX_DECIMAL_PLACES == 10

\* Number.MAX_SAFE_INTEGER = 2^53 - 1
MAX_SAFE_VALUE ==
  [k |-> "fin", neg |-> FALSE, m |-> BSub(BShl(<<1>>, 53), <<1>>), e |-> 0]

\* Number.MIN_SAFE_INTEGER
MIN_SAFE_VALUE == DNeg(MAX_SAFE_VALUE)

\* Number.EPSILON = 2^-52
NumberEPSILON == [k |-> "fin", neg |-> FALSE, m |-> <<1>>, e |-> 0 - 52]

\* Number.MIN_VALUE = 2^-1074
NumberMIN_VALUE == [k |-> "fin", neg |-> FALSE, m |-> <<1>>, e |-> DMinExp]

ERROR_MESSAGES ==
  [DIV_ZERO   |-> "Cannot divide by zero",
   OVERFLOW   |-> "Number too large",
   UNDERFLOW  |-> "Number too small",
   INVALID_OP |-> "Invalid operator",
   GENERIC    |-> "Calculation error"]

\* the four values of type Operator: '+', '-', the multiplication sign and the
\* division sign, the last two written "mul" and "div"
Operators == {"+", "-", "mul", "div"}

\* the display symbol of an operator, one character each: "minus" is U+2212,
\* "times" U+00D7 and "divide" U+00F7
OPERATOR_SYMBOLS ==
  [op \in Operators |->
     IF op = "+" THEN "+"
     ELSE IF op = "-" THEN "minus"
     ELSE IF op = "mul" THEN "times"
     ELSE "divide"]

\* null, for the error and the operator; NullStr for a string-or-null field
Null == "null"

NullStr == <<"null">>

(***************************************************************************)
(* calculatorEngine.ts                                                     *)
(***************************************************************************)
\* the value rounded to twelve significant digits if that is within
\* Number.EPSILON * |value| of it, the value itself otherwise
pickRounded(value, rounded) ==
  IF DAbsLt(DSub(rounded, value), DMul(NumberEPSILON, DAbs(value)))
  THEN rounded
  ELSE value

fixFloatingPointPrecision(value) == pickRounded(value, NumberOfToPrecision(value, 12))

\* applyOperator whose addition subtracts
applyOperatorSubtracting(a, b, operator) ==
  IF operator = "+" THEN DSub(a, b)
  ELSE IF operator = "-" THEN DSub(a, b)
  ELSE IF operator = "mul" THEN DMul(a, b)
  ELSE DDiv(a, b)

\* the switch on the operator
applyOperator(a, b, operator) ==
  IF operator = "+" THEN DAdd(a, b)
  ELSE IF operator = "-" THEN DSub(a, b)
  ELSE IF operator = "mul" THEN DMul(a, b)
  ELSE DDiv(a, b)

\* checkResult that returns the result itself along with the overflow error
checkResultKeepingValue(result) ==
  IF ~DIsFinite(result)
  THEN [value |-> result, error |-> ERROR_MESSAGES.OVERFLOW]
  ELSE IF DAbsGt(result, MAX_SAFE_VALUE)
  THEN [value |-> result, error |-> ERROR_MESSAGES.OVERFLOW]
  ELSE IF result.k # "zero" /\ DAbsLt(result, NumberMIN_VALUE)
  THEN [value |-> DZero, error |-> ERROR_MESSAGES.UNDERFLOW]
  ELSE [value |-> fixFloatingPointPrecision(result), error |-> Null]


\* checkResult that takes a result of zero for an underflow
checkResultNoZeroGuard(result) ==
  IF ~DIsFinite(result)
  THEN [value |-> DZero, error |-> ERROR_MESSAGES.OVERFLOW]
  ELSE IF DAbsGt(result, MAX_SAFE_VALUE)
  THEN [value |-> DZero, error |-> ERROR_MESSAGES.OVERFLOW]
  ELSE IF DAbsLt(result, NumberMIN_VALUE)
  THEN [value |-> DZero, error |-> ERROR_MESSAGES.UNDERFLOW]
  ELSE [value |-> fixFloatingPointPrecision(result), error |-> Null]

\* checkResult without the check against MAX_SAFE_VALUE
checkResultNoSafeLimit(result) ==
  IF ~DIsFinite(result)
  THEN [value |-> DZero, error |-> ERROR_MESSAGES.OVERFLOW]
  ELSE IF result.k # "zero" /\ DAbsLt(result, NumberMIN_VALUE)
  THEN [value |-> DZero, error |-> ERROR_MESSAGES.UNDERFLOW]
  ELSE [value |-> fixFloatingPointPrecision(result), error |-> Null]

\* the checks on the result and the success return
checkResult(result) ==
  IF ~DIsFinite(result)
  THEN [value |-> DZero, error |-> ERROR_MESSAGES.OVERFLOW]
  ELSE IF DAbsGt(result, MAX_SAFE_VALUE)
  THEN [value |-> DZero, error |-> ERROR_MESSAGES.OVERFLOW]
  ELSE IF result.k # "zero" /\ DAbsLt(result, NumberMIN_VALUE)
  THEN [value |-> DZero, error |-> ERROR_MESSAGES.UNDERFLOW]
  ELSE [value |-> fixFloatingPointPrecision(result), error |-> Null]

\* calculate without the check for a zero divisor
calculateNoZeroCheck(a, b, operator) ==
  IF operator \notin Operators
  THEN [value |-> DZero, error |-> ERROR_MESSAGES.INVALID_OP]
  ELSE checkResult(applyOperator(a, b, operator))

\* calculate without the checks for a zero divisor and for a finite result
calculateUnchecked(a, b, operator) ==
  IF operator \notin Operators
  THEN [value |-> DZero, error |-> ERROR_MESSAGES.INVALID_OP]
  ELSE LET result == applyOperator(a, b, operator)
       IN  IF DAbsGt(result, MAX_SAFE_VALUE)
           THEN [value |-> DZero, error |-> ERROR_MESSAGES.OVERFLOW]
           ELSE IF result.k # "zero" /\ DAbsLt(result, NumberMIN_VALUE)
           THEN [value |-> DZero, error |-> ERROR_MESSAGES.UNDERFLOW]
           ELSE [value |-> fixFloatingPointPrecision(result), error |-> Null]

\* calculate whose switch has no case for the multiplication
calculateWithoutMultiply(a, b, operator) ==
  IF operator \notin Operators \ {"mul"}
  THEN [value |-> DZero, error |-> ERROR_MESSAGES.INVALID_OP]
  ELSE IF operator = "div" /\ b.k = "zero"
  THEN [value |-> DZero, error |-> ERROR_MESSAGES.DIV_ZERO]
  ELSE checkResult(applyOperator(a, b, operator))


\* calculate that reports a zero divisor with the generic message
calculateGenericError(a, b, operator) ==
  IF operator \notin Operators
  THEN [value |-> DZero, error |-> ERROR_MESSAGES.INVALID_OP]
  ELSE IF operator = "div" /\ b.k = "zero"
  THEN [value |-> DZero, error |-> ERROR_MESSAGES.GENERIC]
  ELSE checkResult(applyOperator(a, b, operator))

\* calculate that checks for a zero divisor only if the dividend is not zero
calculateZeroDividend(a, b, operator) ==
  IF operator \notin Operators
  THEN [value |-> DZero, error |-> ERROR_MESSAGES.INVALID_OP]
  ELSE IF operator = "div" /\ b.k = "zero" /\ a.k # "zero"
  THEN [value |-> DZero, error |-> ERROR_MESSAGES.DIV_ZERO]
  ELSE checkResult(applyOperator(a, b, operator))

calculate(a, b, operator) ==
  IF operator \notin Operators
  THEN [value |-> DZero, error |-> ERROR_MESSAGES.INVALID_OP]
  ELSE IF operator = "div" /\ b.k = "zero"
  THEN [value |-> DZero, error |-> ERROR_MESSAGES.DIV_ZERO]
  ELSE checkResult(applyOperator(a, b, operator))

Includes(cs, c) == \E i \in 1..Len(cs) : cs[i] = c

IndexOf(cs, c) == CHOOSE i \in 1..Len(cs) : cs[i] = c /\ \A j \in 1..(i - 1) : cs[j] # c

\* the first two pieces of cs.split('.'), for cs with a '.'
SplitDot(cs) ==
  LET i    == IndexOf(cs, ".")
      rest == SubSeq(cs, i + 1, Len(cs))
  IN  [int |-> SubSeq(cs, 1, i - 1),
       dec |-> IF Includes(rest, ".") THEN SubSeq(rest, 1, IndexOf(rest, ".") - 1)
               ELSE rest]

\* cs.replace(/0+$/, '')
RECURSIVE TrimTrailingZeros(_)
TrimTrailingZeros(cs) ==
  IF cs # <<>> /\ cs[Len(cs)] = "0" THEN TrimTrailingZeros(SubSeq(cs, 1, Len(cs) - 1))
  ELSE cs

\* Number.isInteger
NumberIsInteger(v) == v.k = "zero" \/ (v.k = "fin" /\ v.e >= 0)

\* the literals 1e12 and 1e-10
Lit1e12 == DFromDec(FALSE, <<1>>, 12)

Lit1eM10 == DFromDec(FALSE, <<1>>, 0 - 10)

\* value >= 1e12 on Math.abs(value)
DAbsGe(a, b) == a.k # "nan" /\ b.k # "nan" /\ ~DAbsLt(a, b)

\* the scientific notation of lines 86, 94 and 115
toScientific(value) == ToExponential(value, MAX_DECIMAL_PLACES - 5)

\* an integer: its digits if they fit the display
formatInteger(value, intStr) ==
  IF Len(intStr) <= MAX_DISPLAY_DIGITS THEN intStr ELSE toScientific(value)

joinParts(intPart, trimmedDec) ==
  IF trimmedDec # <<>> THEN intPart \o <<".">> \o trimmedDec ELSE intPart

\* the decimals cut to the places left on the display, trailing zeros removed
limitDecimals(parts) ==
  joinParts(parts.int,
            TrimTrailingZeros(
              SubSeq(parts.dec, 1,
                     Min(Len(parts.dec),
                         Min(Max(0, MAX_DISPLAY_DIGITS - Len(parts.int) - 1),
                             MAX_DECIMAL_PLACES)))))

\* the final length check
checkLength(value, formatted) ==
  IF Len(formatted) > MAX_DISPLAY_DIGITS THEN toScientific(value) ELSE formatted

formatDecimal(value, str) ==
  checkLength(value, IF Includes(str, ".") THEN limitDecimals(SplitDot(str)) ELSE str)

formatDisplay(value) ==
  IF value.k = "zero" THEN <<"0">>
  ELSE IF DAbsGe(value, Lit1e12) \/ DAbsLt(value, Lit1eM10)
  THEN toScientific(value)
  ELSE IF NumberIsInteger(value)
  THEN formatInteger(value, NumberToString(value))
  ELSE formatDecimal(value, NumberToString(value))

\* NaN read as 0
orZero(parsed) == IF parsed.k = "nan" THEN DZero ELSE parsed

parseInput(input) ==
  IF input = <<>> \/ input = <<"-">> THEN DZero ELSE orZero(ParseFloat(input))

calculatePercent(value) == fixFloatingPointPrecision(DDiv(value, DInt(100)))

toggleSign(value) ==
  IF value = <<>> \/ value = <<"0">> THEN <<"0">>
  ELSE IF Head(value) = "-" THEN Tail(value)
  ELSE <<"-">> \o value

(***************************************************************************)
(* useCalculator.ts                                                        *)
(***************************************************************************)
initialState ==
  [currentValue      |-> <<"0">>,
   previousValue     |-> NullStr,
   operator          |-> Null,
   waitingForOperand |-> FALSE,
   expression        |-> <<>>,
   error             |-> Null]

\* state.currentValue.replace(/[-.]/g, '')
RemoveSignAndDot(cs) == SelectSeq(cs, LAMBDA c : c # "-" /\ c # ".")

\* reduceDigit with the digit limit off by one
reduceDigitOffByOne(state, digit) ==
  IF state.error # Null
  THEN [initialState EXCEPT !.currentValue = IF digit = "0" THEN <<"0">> ELSE <<digit>>]
  ELSE IF state.waitingForOperand
  THEN [state EXCEPT !.currentValue = <<digit>>, !.waitingForOperand = FALSE]
  ELSE IF Len(RemoveSignAndDot(state.currentValue)) > MAX_INPUT_DIGITS
  THEN state
  ELSE IF state.currentValue = <<"0">> /\ digit # "0"
  THEN [state EXCEPT !.currentValue = <<digit>>]
  ELSE IF state.currentValue = <<"0">> /\ digit = "0"
  THEN state
  ELSE [state EXCEPT !.currentValue = state.currentValue \o <<digit>>]

\* reduceDigit that appends to the displayed value while an operand is awaited
reduceDigitAppendingWhileWaiting(state, digit) ==
  IF state.error # Null
  THEN [initialState EXCEPT !.currentValue = <<digit>>]
  ELSE IF Len(RemoveSignAndDot(state.currentValue)) >= MAX_INPUT_DIGITS
  THEN state
  ELSE IF state.currentValue = <<"0">> /\ digit # "0"
  THEN [state EXCEPT !.currentValue = <<digit>>, !.waitingForOperand = FALSE]
  ELSE IF state.currentValue = <<"0">> /\ digit = "0"
  THEN [state EXCEPT !.waitingForOperand = FALSE]
  ELSE [state EXCEPT !.currentValue = state.currentValue \o <<digit>>,
                     !.waitingForOperand = FALSE]


\* reduceDigit that reports the digit beyond MAX_INPUT_DIGITS as an error
reduceDigitFlaggingLimit(state, digit) ==
  IF state.error # Null
  THEN [initialState EXCEPT !.currentValue = <<digit>>]
  ELSE IF state.waitingForOperand
  THEN [state EXCEPT !.currentValue = <<digit>>, !.waitingForOperand = FALSE]
  ELSE IF Len(RemoveSignAndDot(state.currentValue)) >= MAX_INPUT_DIGITS
  THEN [state EXCEPT !.error = ERROR_MESSAGES.OVERFLOW]
  ELSE IF state.currentValue = <<"0">> /\ digit # "0"
  THEN [state EXCEPT !.currentValue = <<digit>>]
  ELSE IF state.currentValue = <<"0">> /\ digit = "0"
  THEN state
  ELSE [state EXCEPT !.currentValue = state.currentValue \o <<digit>>]

\* reduceDigit that, on an error, clears the error and keeps the other fields
reduceDigitKeepFields(state, digit) ==
  IF state.error # Null
  THEN [state EXCEPT !.currentValue = <<digit>>, !.error = Null]
  ELSE IF state.waitingForOperand
  THEN [state EXCEPT !.currentValue = <<digit>>, !.waitingForOperand = FALSE]
  ELSE IF Len(RemoveSignAndDot(state.currentValue)) >= MAX_INPUT_DIGITS
  THEN state
  ELSE IF state.currentValue = <<"0">> /\ digit # "0"
  THEN [state EXCEPT !.currentValue = <<digit>>]
  ELSE IF state.currentValue = <<"0">> /\ digit = "0"
  THEN state
  ELSE [state EXCEPT !.currentValue = state.currentValue \o <<digit>>]

reduceDigit(state, digit) ==
  IF state.error # Null
  THEN [initialState EXCEPT !.currentValue = IF digit = "0" THEN <<"0">> ELSE <<digit>>]
  ELSE IF state.waitingForOperand
  THEN [state EXCEPT !.currentValue = <<digit>>, !.waitingForOperand = FALSE]
  ELSE IF Len(RemoveSignAndDot(state.currentValue)) >= MAX_INPUT_DIGITS
  THEN state
  ELSE IF state.currentValue = <<"0">> /\ digit # "0"
  THEN [state EXCEPT !.currentValue = <<digit>>]
  ELSE IF state.currentValue = <<"0">> /\ digit = "0"
  THEN state
  ELSE [state EXCEPT !.currentValue = state.currentValue \o <<digit>>]

\* reduceDecimal that appends a decimal point to a value that has one
reduceDecimalAppendAlways(state) ==
  IF state.error # Null
  THEN [initialState EXCEPT !.currentValue = <<"0", ".">>]
  ELSE IF state.waitingForOperand
  THEN [state EXCEPT !.currentValue = <<"0", ".">>, !.waitingForOperand = FALSE]
  ELSE [state EXCEPT !.currentValue = state.currentValue \o <<".">>]

reduceDecimal(state) ==
  IF state.error # Null
  THEN [initialState EXCEPT !.currentValue = <<"0", ".">>]
  ELSE IF state.waitingForOperand
  THEN [state EXCEPT !.currentValue = <<"0", ".">>, !.waitingForOperand = FALSE]
  ELSE IF Includes(state.currentValue, ".")
  THEN state
  ELSE [state EXCEPT !.currentValue = state.currentValue \o <<".">>]

\* setOperator that moves the displayed value away and displays 0
setOperatorClearingDisplay(state, nextOperator, formattedCurrent) ==
  [state EXCEPT
     !.currentValue      = <<"0">>,
     !.previousValue     = formattedCurrent,
     !.operator          = nextOperator,
     !.waitingForOperand = TRUE,
     !.expression        = formattedCurrent
                           \o <<" ", OPERATOR_SYMBOLS[nextOperator]>>]


\* the return of lines 146-154: the operator set on the formatted input
setOperator(state, nextOperator, formattedCurrent) ==
  [state EXCEPT
     !.previousValue     = formattedCurrent,
     !.operator          = nextOperator,
     !.waitingForOperand = TRUE,
     !.expression        = formattedCurrent
                           \o <<" ", OPERATOR_SYMBOLS[nextOperator]>>]

\* the return of lines 135-143: the formatted result of the pending operation
\* becomes the display and the first operand of the next one
chainFormatted(state, nextOperator, formattedResult) ==
  [state EXCEPT
     !.currentValue      = formattedResult,
     !.previousValue     = formattedResult,
     !.operator          = nextOperator,
     !.waitingForOperand = TRUE,
     !.expression        = formattedResult
                           \o <<" ", OPERATOR_SYMBOLS[nextOperator]>>]

\* chainOperator that records the operator pressed although the pending
\* operation ended in an error
chainOperatorRecordingOperator(state, nextOperator, result) ==
  IF result.error # Null
  THEN [state EXCEPT !.error = result.error, !.expression = <<>>,
                     !.operator = nextOperator]
  ELSE chainFormatted(state, nextOperator, formatDisplay(result.value))

\* lines 127-143: the result of the pending operation, an error or a value
chainOperator(state, nextOperator, result) ==
  IF result.error # Null
  THEN [state EXCEPT !.error = result.error, !.expression = <<>>]
  ELSE chainFormatted(state, nextOperator, formatDisplay(result.value))

\* the OPERATOR case on the parsed current value
operatorOn(state, nextOperator, currentValue) ==
  IF state.error # Null
  THEN [initialState EXCEPT
          !.currentValue      = state.currentValue,
          !.previousValue     = state.currentValue,
          !.operator          = nextOperator,
          !.waitingForOperand = TRUE,
          !.expression        = formatDisplay(currentValue)
                                \o <<" ", OPERATOR_SYMBOLS[nextOperator]>>]
  ELSE IF state.previousValue # NullStr /\ state.operator # Null
          /\ ~state.waitingForOperand
  THEN chainOperator(state, nextOperator,
                     calculate(parseInput(state.previousValue), currentValue,
                               state.operator))
  ELSE setOperator(state, nextOperator, formatDisplay(currentValue))

\* reduceOperator that, on an error, sets the operator and keeps the error
reduceOperatorKeepError(state, nextOperator) ==
  IF state.error # Null
  THEN setOperator(state, nextOperator, formatDisplay(parseInput(state.currentValue)))
  ELSE operatorOn(state, nextOperator, parseInput(state.currentValue))

reduceOperator(state, nextOperator) ==
  operatorOn(state, nextOperator, parseInput(state.currentValue))

\* equalsResult that drops the pending operation when it ends in an error
equalsResultDroppingOperation(state, result) ==
  IF result.error # Null
  THEN [state EXCEPT
          !.error         = result.error,
          !.previousValue = NullStr,
          !.operator      = Null,
          !.expression    = state.previousValue
                            \o <<" ", OPERATOR_SYMBOLS[state.operator], " ">>
                            \o state.currentValue]
  ELSE [state EXCEPT
          !.currentValue      = formatDisplay(result.value),
          !.previousValue     = NullStr,
          !.operator          = Null,
          !.waitingForOperand = TRUE,
          !.expression        = <<>>]


\* equalsResult that leaves the expression in place on success
equalsResultKeepingExpression(state, result) ==
  IF result.error # Null
  THEN [state EXCEPT
          !.error      = result.error,
          !.expression = state.previousValue
                         \o <<" ", OPERATOR_SYMBOLS[state.operator], " ">>
                         \o state.currentValue]
  ELSE [state EXCEPT
          !.currentValue      = formatDisplay(result.value),
          !.previousValue     = NullStr,
          !.operator          = Null,
          !.waitingForOperand = TRUE]

\* lines 172-188: the result of the operation, an error or a value
equalsResult(state, result) ==
  IF result.error # Null
  THEN [state EXCEPT
          !.error      = result.error,
          !.expression = state.previousValue
                         \o <<" ", OPERATOR_SYMBOLS[state.operator], " ">>
                         \o state.currentValue]
  ELSE [state EXCEPT
          !.currentValue      = formatDisplay(result.value),
          !.previousValue     = NullStr,
          !.operator          = Null,
          !.waitingForOperand = TRUE,
          !.expression        = <<>>]

\* reduceEquals that resets the calculator when there is nothing to calculate
reduceEqualsResetsWhenIdle(state) ==
  IF state.error # Null THEN initialState
  ELSE IF state.operator = Null \/ state.previousValue = NullStr THEN initialState
  ELSE equalsResult(state,
                    calculate(parseInput(state.previousValue),
                              parseInput(state.currentValue), state.operator))

\* reduceEquals that clears previousValue and keeps the operator
reduceEqualsKeepOperator(state) ==
  IF state.error # Null THEN initialState
  ELSE IF state.operator = Null \/ state.previousValue = NullStr THEN state
  ELSE LET previousValue == parseInput(state.previousValue)
           currentValue  == parseInput(state.currentValue)
           result        == calculate(previousValue, currentValue, state.operator)
       IN  IF result.error # Null
           THEN [state EXCEPT
                   !.error      = result.error,
                   !.expression = state.previousValue
                                  \o <<" ", OPERATOR_SYMBOLS[state.operator], " ">>
                                  \o state.currentValue]
           ELSE [state EXCEPT
                   !.currentValue      = formatDisplay(result.value),
                   !.previousValue     = NullStr,
                   !.waitingForOperand = TRUE,
                   !.expression        = <<>>]

\* reduceEquals that does nothing while the second operand is awaited
reduceEqualsNoOpWhenWaiting(state) ==
  IF state.error # Null THEN initialState
  ELSE IF state.operator = Null \/ state.previousValue = NullStr
          \/ state.waitingForOperand
  THEN state
  ELSE LET previousValue == parseInput(state.previousValue)
           currentValue  == parseInput(state.currentValue)
           result        == calculate(previousValue, currentValue, state.operator)
       IN  IF result.error # Null
           THEN [state EXCEPT
                   !.error      = result.error,
                   !.expression = state.previousValue
                                  \o <<" ", OPERATOR_SYMBOLS[state.operator], " ">>
                                  \o state.currentValue]
           ELSE [state EXCEPT
                   !.currentValue      = formatDisplay(result.value),
                   !.previousValue     = NullStr,
                   !.operator          = Null,
                   !.waitingForOperand = TRUE,
                   !.expression        = <<>>]

reduceEquals(state) ==
  IF state.error # Null THEN initialState
  ELSE IF state.operator = Null \/ state.previousValue = NullStr THEN state
  ELSE equalsResult(state,
                    calculate(parseInput(state.previousValue),
                              parseInput(state.currentValue), state.operator))

\* reduceClear that resets everything but the error
reduceClearKeepError(state) == [initialState EXCEPT !.error = state.error]

reduceClear(state) == initialState

reduceToggleSign(state) ==
  IF state.error # Null THEN state
  ELSE [state EXCEPT !.currentValue = toggleSign(state.currentValue)]

\* reducePercent without the precision correction of calculatePercent
reducePercentUncorrected(state) ==
  IF state.error # Null THEN state
  ELSE [state EXCEPT
          !.currentValue = formatDisplay(DDiv(parseInput(state.currentValue), DInt(100)))]

reducePercent(state) ==
  IF state.error # Null THEN state
  ELSE [state EXCEPT
          !.currentValue = formatDisplay(calculatePercent(parseInput(state.currentValue)))]

\* reduceBackspace without the guard for a lone minus sign
reduceBackspaceKeepSign(state) ==
  IF state.error # Null THEN initialState
  ELSE IF state.waitingForOperand THEN state
  ELSE IF Len(state.currentValue) = 1
  THEN [state EXCEPT !.currentValue = <<"0">>]
  ELSE [state EXCEPT
          !.currentValue = SubSeq(state.currentValue, 1, Len(state.currentValue) - 1)]

\* reduceBackspace that removes the last character whatever the length
reduceBackspaceSlicingAlways(state) ==
  IF state.error # Null THEN initialState
  ELSE IF state.waitingForOperand THEN state
  ELSE [state EXCEPT
          !.currentValue = SubSeq(state.currentValue, 1, Len(state.currentValue) - 1)]


\* reduceBackspace that does nothing on an error
reduceBackspaceKeepError(state) ==
  IF state.error # Null THEN state
  ELSE IF state.waitingForOperand THEN state
  ELSE IF Len(state.currentValue) = 1
          \/ (Len(state.currentValue) = 2 /\ Head(state.currentValue) = "-")
  THEN [state EXCEPT !.currentValue = <<"0">>]
  ELSE [state EXCEPT
          !.currentValue = SubSeq(state.currentValue, 1, Len(state.currentValue) - 1)]

\* reduceBackspace that erases also while the operand is awaited
reduceBackspaceWhileWaiting(state) ==
  IF state.error # Null THEN initialState
  ELSE IF Len(state.currentValue) = 1
          \/ (Len(state.currentValue) = 2 /\ Head(state.currentValue) = "-")
  THEN [state EXCEPT !.currentValue = <<"0">>]
  ELSE [state EXCEPT
          !.currentValue = SubSeq(state.currentValue, 1, Len(state.currentValue) - 1)]

reduceBackspace(state) ==
  IF state.error # Null THEN initialState
  ELSE IF state.waitingForOperand THEN state
  ELSE IF Len(state.currentValue) = 1
          \/ (Len(state.currentValue) = 2 /\ Head(state.currentValue) = "-")
  THEN [state EXCEPT !.currentValue = <<"0">>]
  ELSE [state EXCEPT
          !.currentValue = SubSeq(state.currentValue, 1, Len(state.currentValue) - 1)]

\* an action of type CalculatorAction; payload is "" where the type has none
Act(type, payload) == [type |-> type, payload |-> payload]

calculatorReducer(state, action) ==
  IF action.type = "DIGIT" THEN reduceDigit(state, action.payload)
  ELSE IF action.type = "DECIMAL" THEN reduceDecimal(state)
  ELSE IF action.type = "OPERATOR" THEN reduceOperator(state, action.payload)
  ELSE IF action.type = "EQUALS" THEN reduceEquals(state)
  ELSE IF action.type = "CLEAR" THEN reduceClear(state)
  ELSE IF action.type = "TOGGLE_SIGN" THEN reduceToggleSign(state)
  ELSE IF action.type = "PERCENT" THEN reducePercent(state)
  ELSE IF action.type = "BACKSPACE" THEN reduceBackspace(state)
  ELSE state

(***************************************************************************)
(* The calculator as a state machine.  state is the reducer's state.       *)
(* batch is a sequence of handler calls made at the start of the run (the  *)
(* way the tests drive the hook), done is the number of them reduced so    *)
(* far, and free is the number of further handler calls the user may       *)
(* still make once the batch is through.                                   *)
(***************************************************************************)
VARIABLES state, batch, done, free

vars == <<state, batch, done, free>>

\* the number of handler calls explored from the initial state
MaxFree == 2

\* the number of handler calls explored after a batch
MaxTail == 1

AllDigits == {"0", "1", "2", "3", "4", "5", "6", "7", "8", "9"}

\* the digit keys pressed in the free part of a run
FreeDigits == {"0", "1", "3", "5"}

\* handleDigit called once per character of cs
TypeDigits(cs) == [i \in 1..Len(cs) |-> Act("DIGIT", cs[i])]

PressOperator(op) == <<Act("OPERATOR", op)>>

PressEquals == <<Act("EQUALS", "")>>

PressClear == <<Act("CLEAR", "")>>

PressPercent == <<Act("PERCENT", "")>>

PressDecimal == <<Act("DECIMAL", "")>>

PressToggleSign == <<Act("TOGGLE_SIGN", "")>>

PressBackspace == <<Act("BACKSPACE", "")>>

\* the batch has been reduced completely
BatchDone == done = Len(batch)

\* Dispatch that drops a handler call repeating the call before it
DispatchDroppingRepeats(action) ==
  /\ IF ~BatchDone
     THEN batch[done + 1] = action /\ done' = done + 1 /\ free' = free
     ELSE free > 0 /\ done' = done /\ free' = free - 1
  /\ batch' = batch
  /\ state' = IF ~BatchDone /\ done > 0 /\ batch[done] = action
              THEN state
              ELSE calculatorReducer(state, action)

\* dispatch of one action: the reducer maps the state
Dispatch(action) ==
  /\ IF ~BatchDone
     THEN batch[done + 1] = action /\ done' = done + 1 /\ free' = free
     ELSE free > 0 /\ done' = done /\ free' = free - 1
  /\ batch' = batch
  /\ state' = calculatorReducer(state, action)

Digit ==
  \E d \in AllDigits :
    /\ ~BatchDone \/ d \in FreeDigits
    /\ Dispatch(Act("DIGIT", d))

Decimal == Dispatch(Act("DECIMAL", ""))

Operator == \E op \in Operators : Dispatch(Act("OPERATOR", op))

Equals == Dispatch(Act("EQUALS", ""))

Clear == Dispatch(Act("CLEAR", ""))

ToggleSign == Dispatch(Act("TOGGLE_SIGN", ""))

Percent == Dispatch(Act("PERCENT", ""))

Backspace == Dispatch(Act("BACKSPACE", ""))

Next ==
  \/ Digit
  \/ Decimal
  \/ Operator
  \/ Equals
  \/ Clear
  \/ ToggleSign
  \/ Percent
  \/ Backspace

\* operands as the user types them, digit by digit
Fifteen == DigitsToStr(<<1, 2, 3, 4, 5, 6, 7, 8, 9, 0, 1, 2, 3, 4, 5>>)

Million == <<"1", "0", "0", "0", "0", "0", "0">>

\* a 13 digit operand
LongOperand == <<"1", "0", "0", "0", "0", "0", "1", "0", "0", "0", "0", "0", "0">>

\* 1 % % % % : a value below 1e-6
PercentBatch ==
  TypeDigits(<<"1">>) \o PressPercent \o PressPercent \o PressPercent \o PressPercent

\* 1000000 x 1000000 = : the value 1e12
TrillionBatch ==
  TypeDigits(Million) \o PressOperator("mul") \o TypeDigits(Million) \o PressEquals

\* 5 / 0 = and then Clear
DivZeroBatch ==
  TypeDigits(<<"5">>) \o PressOperator("div") \o TypeDigits(<<"0">>) \o PressEquals
    \o PressClear

\* fifteen digits and one more
SixteenBatch == TypeDigits(Fifteen) \o TypeDigits(<<"6">>)

\* fifteen digits squared: beyond the safe integers
OverflowBatch ==
  TypeDigits(Fifteen) \o PressOperator("mul") \o TypeDigits(Fifteen) \o PressEquals

\* 0.1 + 0.2 =
TenthsBatch ==
  TypeDigits(<<"0">>) \o PressDecimal \o TypeDigits(<<"1">>) \o PressOperator("+")
    \o TypeDigits(<<"0">>) \o PressDecimal \o TypeDigits(<<"2">>) \o PressEquals

\* 5 + =
RepeatBatch == TypeDigits(<<"5">>) \o PressOperator("+") \o PressEquals

\* 5 . . 3 : the decimal point pressed twice
TwoDecimalsBatch ==
  TypeDigits(<<"5">>) \o PressDecimal \o PressDecimal \o TypeDigits(<<"3">>)

\* . +/- backspace 5 : "0.", "-0.", "-0" and then a digit
NegativeZeroBatch ==
  PressDecimal \o PressToggleSign \o PressBackspace \o TypeDigits(<<"5">>)

\* . 7 % : 0.7 / 100 is 0.006999999999999999 in binary64
PercentFractionBatch == PressDecimal \o TypeDigits(<<"7">>) \o PressPercent

\* fifteen digits negated, times fifteen digits: below the safe integers
NegativeOverflowBatch ==
  TypeDigits(Fifteen) \o PressToggleSign \o PressOperator("mul")
    \o TypeDigits(Fifteen) \o PressEquals

\* 1 + . 9 +/- = : 1 + -0.9 is 0.09999999999999998 in binary64
CancellationBatch ==
  TypeDigits(<<"1">>) \o PressOperator("+") \o PressDecimal
    \o TypeDigits(<<"9">>) \o PressToggleSign \o PressEquals

\* batches of handler calls that lead deep into the calculator
Scenarios ==
  { PercentBatch, TrillionBatch, DivZeroBatch, SixteenBatch, OverflowBatch,
    TenthsBatch, RepeatBatch, TwoDecimalsBatch, NegativeZeroBatch,
    PercentFractionBatch, NegativeOverflowBatch, CancellationBatch }

\* the calculator as mounted: useReducer(calculatorReducer, initialState)
Init ==
  /\ state = initialState
  /\ done = 0
  /\ \/ batch = <<>> /\ free = MaxFree
     \/ batch \in Scenarios /\ free = MaxTail

Spec == Init /\ [][Next]_vars

\* operands typed into the calculator, digit by digit
CalcOperands ==
  { <<"0">>, <<"1">>, <<"3">>, <<"5">>, <<"7">>, <<"1", "0">>, <<"2", "5">>,
    <<"0", "4">>, <<"1", "0", "0">>, <<"9", "9", "9">>, Million, LongOperand }

ChainOperands == { <<"1">>, <<"3">>, <<"5">>, LongOperand }

\* whole calculations: a op b =, a op1 b op2 c = and a op1 op2 b =
CalcBatches ==
  { TypeDigits(a) \o PressOperator(op) \o TypeDigits(b) \o PressEquals :
      a \in CalcOperands, op \in Operators, b \in CalcOperands }
  \cup
  { TypeDigits(a) \o PressOperator(op1) \o TypeDigits(b) \o PressOperator(op2)
      \o TypeDigits(c) \o PressEquals :
      a \in ChainOperands, op1 \in Operators, b \in ChainOperands,
      op2 \in Operators, c \in ChainOperands }
  \cup
  { TypeDigits(a) \o PressOperator(op1) \o PressOperator(op2) \o TypeDigits(b)
      \o PressEquals :
      a \in ChainOperands, op1 \in Operators, op2 \in Operators,
      b \in ChainOperands }

\* the calculator driven through whole calculations, the way the tests of
\* useCalculator drive it, and through the scenarios with a free tail
InitCalc ==
  /\ state = initialState
  /\ done = 0
  /\ \/ batch \in CalcBatches /\ free = 0
     \/ batch \in Scenarios /\ free = MaxTail

SpecCalc == InitCalc /\ [][Next]_vars

(***************************************************************************)
(* The numeric-string grammar of the display value                         *)
(***************************************************************************)
\* the characters of cs that are c
CountOf(cs, c) == Len(SelectSeq(cs, LAMBDA x : x = c))

\* cs without one leading minus sign
Unsigned(cs) == IF cs # <<>> /\ Head(cs) = "-" THEN Tail(cs) ELSE cs

\* an optional single leading '-', then digits with at most one '.'
IsNumericString(cs) ==
  /\ \A i \in 1..Len(Unsigned(cs)) : IsDigit(Unsigned(cs)[i]) \/ Unsigned(cs)[i] = "."
  /\ CountOf(cs, ".") <= 1
  /\ \E i \in 1..Len(cs) : IsDigit(cs[i])

\* a numeric string, 'e', a sign and the digits of the exponent
IsExponentialString(cs) ==
  /\ CountOf(cs, "e") = 1
  /\ LET i == IndexOf(cs, "e")
         mantissa == SubSeq(cs, 1, i - 1)
         exponent == SubSeq(cs, i + 1, Len(cs))
     IN  /\ IsNumericString(mantissa)
         /\ IsDigit(mantissa[Len(mantissa)])
         /\ Len(exponent) >= 2
         /\ exponent[1] \in {"+", "-"}
         /\ \A j \in 2..Len(exponent) : IsDigit(exponent[j])

OperatorCalls == { i \in 1..Len(batch) : batch[i].type = "OPERATOR" }

\* the digits typed by the calls i..j of the batch
Typed(i, j) == [k \in 1..(j - i + 1) |-> batch[i + k - 1].payload]

\* the calls i..j of the batch are Digit calls, and there is one at least
AllDigitCalls(i, j) == i <= j /\ \A k \in i..j : batch[k].type = "DIGIT"

\* the number a digit sequence denotes
OperandValue(cs) == DFromDec(FALSE, StrToDigits(cs), 0)

\* the batch is [digits of a, Operator(op), digits of b, Equals]
IsCalcBatch ==
  /\ Cardinality(OperatorCalls) = 1
  /\ batch[Len(batch)].type = "EQUALS"
  /\ \E i \in OperatorCalls :
       AllDigitCalls(1, i - 1) /\ AllDigitCalls(i + 1, Len(batch) - 1)

\* the state Equals leaves after a successful evaluation to value
Displaying(value) ==
  [currentValue      |-> formatDisplay(value),
   previousValue     |-> NullStr,
   operator          |-> Null,
   waitingForOperand |-> TRUE,
   expression        |-> <<>>,
   error             |-> Null]

\* C2 as stated: from the initial state [digits of a, Operator(op), digits
\* of b, Equals] with a successful evaluate(a, b, op) ends with currentValue
\* formatDisplay(evaluate(a, b, op).value), no error, previousValue and
\* operator absent, waitingForOperand true and an empty expression.
CexC2 ==
  (BatchDone /\ batch # <<>> /\ IsCalcBatch) =>
    LET i      == CHOOSE i \in OperatorCalls : TRUE
        a      == OperandValue(Typed(1, i - 1))
        b      == OperandValue(Typed(i + 1, Len(batch) - 1))
        result == calculate(a, b, batch[i].payload)
    IN  result.error = Null => state = Displaying(result.value)

(***************************************************************************)
(* Equals, Clear and the pending operator                                  *)
(***************************************************************************)
\* C3: in a non-error state with the operator Divide pending and a
\* currentValue that parses to zero, Equals sets error to "Cannot divide by
\* zero", sets expression to previousValue, the division sign and
\* currentValue separated by blanks, and leaves currentValue, previousValue
\* and operator unchanged.
ThmC3 ==
  (state.error = Null /\ state.operator = "div"
     /\ parseInput(state.currentValue) = DZero) =>
    LET next == calculatorReducer(state, Act("EQUALS", ""))
    IN  /\ next.error = "Cannot divide by zero"
        /\ next.expression =
             state.previousValue \o <<" ", "divide", " ">> \o state.currentValue
        /\ next.currentValue = state.currentValue
        /\ next.previousValue = state.previousValue
        /\ next.operator = state.operator

\* C3 witness: Equals has just reported the division of 5 by zero
WitC3 ==
  /\ batch = DivZeroBatch
  /\ done = 4
  /\ state.error = "Cannot divide by zero"
  /\ state.operator = "div"
  /\ state.expression = <<"5", " ", "divide", " ", "0">>
  /\ state.currentValue = <<"0">>
  /\ state.previousValue = <<"5">>

\* C4: in every reachable state the operator is absent if and only if
\* previousValue is absent.
ThmC4 == (state.operator = Null) <=> (state.previousValue = NullStr)

\* C4 witness: an Operator call has set both fields and Equals has cleared both
WitC4 ==
  /\ BatchDone
  /\ OperatorCalls # {}
  /\ batch[Len(batch)].type = "EQUALS"
  /\ state.error = Null
  /\ state.operator = Null
  /\ state.previousValue = NullStr

\* the second operand is awaited: an operator is pending and no digit of the
\* second operand has been entered
AwaitingSecondOperand ==
  state.error = Null /\ state.operator # Null /\ state.waitingForOperand

\* C5 as stated: in a non-error state with an operator pending and
\* waitingForOperand true, Equals leaves the state as it is.
CexC5 ==
  AwaitingSecondOperand => calculatorReducer(state, Act("EQUALS", "")) = state

\* C5 amended: in such a state Equals is not a no-op; it evaluates
\* previousValue operator currentValue with the value still displayed as the
\* second operand.  On success it displays the formatted result with
\* previousValue and operator cleared, waitingForOperand true and an empty
\* expression (5 + = displays 10); on failure it sets the error and the
\* expression and leaves the values.
ThmC5 ==
  AwaitingSecondOperand =>
    LET next   == calculatorReducer(state, Act("EQUALS", ""))
        result == calculate(parseInput(state.previousValue),
                            parseInput(state.currentValue), state.operator)
    IN  /\ next # state
        /\ result.error = Null => next = Displaying(result.value)
        /\ result.error # Null =>
             /\ next.error = result.error
             /\ next.currentValue = state.currentValue
             /\ next.previousValue = state.previousValue
             /\ next.operator = state.operator
        /\ (state.currentValue = <<"5">> /\ state.previousValue = <<"5">>
              /\ state.operator = "+") => next.currentValue = <<"1", "0">>

\* C5 witness: after 5 + = the display shows 10
WitC5 ==
  /\ BatchDone
  /\ batch = RepeatBatch
  /\ free = MaxTail
  /\ state = Displaying(DInt(10))

\* C6: from every reachable state Clear yields the canonical initial state
\* (currentValue "0", previousValue and operator absent, waitingForOperand
\* false, expression empty, error absent), so that a second Clear changes
\* nothing.
ThmC6 ==
  LET once == calculatorReducer(state, Act("CLEAR", ""))
  IN  /\ once = [currentValue      |-> <<"0">>,
                 previousValue     |-> NullStr,
                 operator          |-> Null,
                 waitingForOperand |-> FALSE,
                 expression        |-> <<>>,
                 error             |-> Null]
      /\ calculatorReducer(once, Act("CLEAR", "")) = once

\* C6 witness: Clear has reset the calculator after the error of 5 / 0 =
WitC6 ==
  /\ batch = DivZeroBatch
  /\ BatchDone
  /\ free = MaxTail
  /\ state = initialState

(***************************************************************************)
(* Chained and replaced operators                                          *)
(***************************************************************************)
\* the first and the last Operator call of the batch
FirstOperatorCall == CHOOSE i \in OperatorCalls : \A k \in OperatorCalls : i <= k

LastOperatorCall == CHOOSE j \in OperatorCalls : \A k \in OperatorCalls : k <= j

\* the batch is [digits of a, Operator(op1), digits of b, Operator(op2),
\* digits of c, Equals]
IsChainBatch ==
  /\ Cardinality(OperatorCalls) = 2
  /\ batch[Len(batch)].type = "EQUALS"
  /\ AllDigitCalls(1, FirstOperatorCall - 1)
  /\ AllDigitCalls(FirstOperatorCall + 1, LastOperatorCall - 1)
  /\ AllDigitCalls(LastOperatorCall + 1, Len(batch) - 1)

\* the batch is [digits of a, Operator(op1), Operator(op2), digits of b, Equals]
IsReplaceBatch ==
  /\ Cardinality(OperatorCalls) = 2
  /\ batch[Len(batch)].type = "EQUALS"
  /\ LastOperatorCall = FirstOperatorCall + 1
  /\ AllDigitCalls(1, FirstOperatorCall - 1)
  /\ AllDigitCalls(LastOperatorCall + 1, Len(batch) - 1)

\* an operator is pending and the second operand has been entered
SecondOperandEntered ==
  /\ state.error = Null
  /\ state.operator # Null
  /\ state.previousValue # NullStr
  /\ ~state.waitingForOperand

\* C7, the step: with an operator op1 pending and the second operand entered,
\* Operator(op2) with a successful evaluation sets currentValue and
\* previousValue to formatDisplay(previousValue op1 currentValue), the
\* operator to op2 and waitingForOperand to true.  Stated of the second
\* Operator call of [a, op1, b, op2, c, Equals].
ChainStep ==
  (batch # <<>> /\ IsChainBatch /\ done = LastOperatorCall - 1) =>
    LET op2    == batch[LastOperatorCall].payload
        next   == calculatorReducer(state, Act("OPERATOR", op2))
        result == calculate(parseInput(state.previousValue),
                            parseInput(state.currentValue), state.operator)
    IN  /\ SecondOperandEntered
        /\ result.error = Null =>
             /\ next.currentValue = formatDisplay(result.value)
             /\ next.previousValue = formatDisplay(result.value)
             /\ next.operator = op2
             /\ next.waitingForOperand

\* C7, the consequence: [a, op1, b, op2, c, Equals] displays (a op1 b) op2 c,
\* the displayed intermediate result a op1 b being the first operand of op2.
ChainResult ==
  (BatchDone /\ batch # <<>> /\ IsChainBatch) =>
    LET i     == FirstOperatorCall
        j     == LastOperatorCall
        a     == OperandValue(Typed(1, i - 1))
        b     == OperandValue(Typed(i + 1, j - 1))
        c     == OperandValue(Typed(j + 1, Len(batch) - 1))
        first == calculate(a, b, batch[i].payload)
        shown == parseInput(formatDisplay(first.value))
        last  == calculate(shown, c, batch[j].payload)
    IN  (first.error = Null /\ last.error = Null) =>
          state.currentValue = formatDisplay(last.value)

\* C7 as stated: chaining is immediate-execution and strictly left-to-right,
\* the step and its consequence together.
CexC7 == ChainStep /\ ChainResult

\* C8 as stated: consecutive Operator calls after an operand a perform no
\* calculation, previousValue keeps the numeric value of a and the operator
\* is the last one pressed, so that [a, op1, op2, b, Equals] displays a op2 b.
CexC8 ==
  (batch # <<>> /\ IsReplaceBatch) =>
    LET i      == FirstOperatorCall
        j      == LastOperatorCall
        a      == OperandValue(Typed(1, i - 1))
        b      == OperandValue(Typed(j + 1, Len(batch) - 1))
        result == calculate(a, b, batch[j].payload)
    IN  /\ done \in {i, j} =>
             /\ parseInput(state.currentValue) = a
             /\ parseInput(state.previousValue) = a
             /\ state.operator = batch[done].payload
             /\ state.waitingForOperand
             /\ state.error = Null
        /\ (BatchDone /\ result.error = Null) =>
             state.currentValue = formatDisplay(result.value)

(***************************************************************************)
(* Totality and the digit limit                                            *)
(***************************************************************************)
\* every action of type CalculatorAction
AllActions ==
  {Act("DIGIT", d) : d \in AllDigits} \cup {Act("OPERATOR", op) : op \in Operators}
    \cup {Act("DECIMAL", ""), Act("EQUALS", ""), Act("CLEAR", ""),
          Act("TOGGLE_SIGN", ""), Act("PERCENT", ""), Act("BACKSPACE", "")}

IsString(cs) == DOMAIN cs = 1..Len(cs) /\ \A i \in 1..Len(cs) : cs[i] \in STRING

\* s is a value of type CalculatorState
IsCalculatorState(s) ==
  /\ DOMAIN s = {"currentValue", "previousValue", "operator", "waitingForOperand",
                 "expression", "error"}
  /\ IsString(s.currentValue) /\ s.currentValue # <<>>
  /\ IsString(s.previousValue) /\ s.previousValue # <<>>
  /\ s.operator \in Operators \cup {Null}
  /\ s.waitingForOperand \in BOOLEAN
  /\ IsString(s.expression)
  /\ s.error \in {ERROR_MESSAGES[m] : m \in DOMAIN ERROR_MESSAGES} \cup {Null}

DigitCount(cs) == Len(SelectSeq(cs, IsDigit))

\* C10: in every reachable state currentValue holds at most 15 digits, and
\* in a non-error state with waitingForOperand false and 15 digits in
\* currentValue every Digit action leaves the state unchanged.
ThmC10 ==
  /\ DigitCount(state.currentValue) <= 15
  /\ (state.error = Null /\ ~state.waitingForOperand
        /\ DigitCount(state.currentValue) = 15) =>
       \A d \in AllDigits : calculatorReducer(state, Act("DIGIT", d)) = state

\* C10 witness: the sixteenth digit typed has been ignored
WitC10 ==
  /\ batch = SixteenBatch
  /\ BatchDone
  /\ free = MaxTail
  /\ state = [initialState EXCEPT !.currentValue = Fifteen]

(***************************************************************************)
(* Decimal points and leading zeros                                        *)
(***************************************************************************)
\* C11: in every reachable state currentValue contains at most one '.', and
\* in a non-error state with waitingForOperand false whose currentValue
\* contains a '.', Decimal leaves the state unchanged.
ThmC11 ==
  /\ CountOf(state.currentValue, ".") <= 1
  /\ (state.error = Null /\ ~state.waitingForOperand
        /\ Includes(state.currentValue, ".")) =>
       calculatorReducer(state, Act("DECIMAL", "")) = state

\* C11 witness: of 5 . . the second decimal point has been ignored
WitC11 ==
  /\ batch = TwoDecimalsBatch
  /\ done = 3
  /\ state = [initialState EXCEPT !.currentValue = <<"5", ".">>]

\* the integer part of cs, after an optional leading '-', is a '0' followed
\* by another digit
HasLeadingZero(cs) ==
  Len(Unsigned(cs)) >= 2 /\ Unsigned(cs)[1] = "0" /\ IsDigit(Unsigned(cs)[2])

\* C12 as stated: in every reachable state the integer part of currentValue
\* (after an optional leading '-') never consists of a '0' followed by
\* another digit.
CexC12 == ~HasLeadingZero(state.currentValue)

(***************************************************************************)
(* Recovery from an error                                                  *)
(***************************************************************************)
\* C13: from every reachable state in which error is set, each of Clear,
\* Equals and Backspace yields exactly the canonical initial state.
ThmC13 ==
  state.error # Null =>
    \A a \in {Act("CLEAR", ""), Act("EQUALS", ""), Act("BACKSPACE", "")} :
      calculatorReducer(state, a) =
        [currentValue      |-> <<"0">>,
         previousValue     |-> NullStr,
         operator          |-> Null,
         waitingForOperand |-> FALSE,
         expression        |-> <<>>,
         error             |-> Null]

\* C13 witness: a handler call made in the error state that the overflow of
\* 123456789012345 squared left has reset the calculator
WitC13 ==
  /\ batch = OverflowBatch
  /\ BatchDone
  /\ free = MaxTail - 1
  /\ state = initialState

\* C14: from every reachable state in which error is set, Digit(d) yields
\* the state with currentValue d and Decimal the state with currentValue
\* "0.", in both cases with error absent, previousValue and operator absent,
\* waitingForOperand false and expression empty.
ThmC14 ==
  state.error # Null =>
    /\ \A d \in AllDigits :
         calculatorReducer(state, Act("DIGIT", d)) =
           [currentValue      |-> <<d>>,
            previousValue     |-> NullStr,
            operator          |-> Null,
            waitingForOperand |-> FALSE,
            expression        |-> <<>>,
            error             |-> Null]
    /\ calculatorReducer(state, Act("DECIMAL", "")) =
         [currentValue      |-> <<"0", ".">>,
          previousValue     |-> NullStr,
          operator          |-> Null,
          waitingForOperand |-> FALSE,
          expression        |-> <<>>,
          error             |-> Null]

\* C14 witness: after the overflow a digit or the decimal point has started a
\* fresh value
WitC14 ==
  /\ batch = OverflowBatch
  /\ BatchDone
  /\ free = MaxTail - 1
  /\ state.currentValue \in {<<"5">>, <<"0", ".">>}
  /\ state.previousValue = NullStr
  /\ state.error = Null

\* C15: from every reachable state in which error is set, Operator(op)
\* yields error absent, currentValue unchanged, previousValue the old
\* currentValue, operator op, waitingForOperand true and the expression
\* formatDisplay(parseInput(currentValue)), a blank and the symbol of op; of
\* the operator and previousValue of the error state nothing is left.
ThmC15 ==
  state.error # Null =>
    \A op \in Operators :
      calculatorReducer(state, Act("OPERATOR", op)) =
        [currentValue      |-> state.currentValue,
         previousValue     |-> state.currentValue,
         operator          |-> op,
         waitingForOperand |-> TRUE,
         expression        |-> formatDisplay(parseInput(state.currentValue))
                               \o <<" ", OPERATOR_SYMBOLS[op]>>,
         error             |-> Null]

\* C15 witness: after the overflow of 123456789012345 squared the operator +
\* has made the displayed value the first operand
WitC15 ==
  /\ batch = OverflowBatch
  /\ BatchDone
  /\ free = MaxTail - 1
  /\ state.error = Null
  /\ state.operator = "+"
  /\ state.currentValue = Fifteen
  /\ state.previousValue = Fifteen
  /\ state.expression = ToExponential(OperandValue(Fifteen), 5) \o <<" ", "+">>

(***************************************************************************)
(* ToggleSign, Percent and Backspace                                       *)
(***************************************************************************)
\* next differs from the state at most in currentValue
OnlyCurrentValueChanged(next) == next = [state EXCEPT !.currentValue = next.currentValue]

\* next is the state with currentValue cs and nothing else changed
OnlyCurrentValueSet(next, cs) == next = [state EXCEPT !.currentValue = cs]

\* C16 as stated: while error is set ToggleSign and Percent leave the state
\* unchanged; otherwise each changes at most currentValue, to
\* toggleSign(currentValue) for ToggleSign and to
\* formatDisplay(parseInput(currentValue) / 100) for Percent.
CexC16 ==
  IF state.error # Null
  THEN /\ calculatorReducer(state, Act("TOGGLE_SIGN", "")) = state
       /\ calculatorReducer(state, Act("PERCENT", "")) = state
  ELSE /\ OnlyCurrentValueSet(calculatorReducer(state, Act("TOGGLE_SIGN", "")),
                              toggleSign(state.currentValue))
       /\ OnlyCurrentValueSet(calculatorReducer(state, Act("PERCENT", "")),
                              formatDisplay(DDiv(parseInput(state.currentValue),
                                                 DInt(100))))

\* C16 amended: the same, with the currentValue of Percent
\* formatDisplay(calculatePercent(parseInput(currentValue))), where
\* calculatePercent(x) is fixFloatingPointPrecision(x / 100): the quotient
\* rounded to 12 significant digits when that is within Number.EPSILON * |x / 100|.
ThmC16 ==
  IF state.error # Null
  THEN /\ calculatorReducer(state, Act("TOGGLE_SIGN", "")) = state
       /\ calculatorReducer(state, Act("PERCENT", "")) = state
  ELSE /\ OnlyCurrentValueSet(calculatorReducer(state, Act("TOGGLE_SIGN", "")),
                              toggleSign(state.currentValue))
       /\ OnlyCurrentValueSet(calculatorReducer(state, Act("PERCENT", "")),
                              formatDisplay(fixFloatingPointPrecision(
                                DDiv(parseInput(state.currentValue), DInt(100)))))

\* C16 witness: Percent has turned 0.7 into 0.007, not into 0.0069999999
WitC16 ==
  /\ batch = PercentFractionBatch
  /\ BatchDone
  /\ free = MaxTail
  /\ state = [initialState EXCEPT !.currentValue = <<"0", ".", "0", "0", "7">>]

\* C17: Backspace in a non-error state leaves the state unchanged if
\* waitingForOperand is true; else sets currentValue to "0" if currentValue
\* has length 1, or length 2 with a leading '-'; otherwise removes exactly
\* the last character of currentValue; in every case previousValue,
\* operator, waitingForOperand, expression and error are unchanged.
ThmC17 ==
  state.error = Null =>
    LET next == calculatorReducer(state, Act("BACKSPACE", ""))
        n    == Len(state.currentValue)
    IN  /\ OnlyCurrentValueChanged(next)
        /\ IF state.waitingForOperand THEN next = state
           ELSE IF n = 1 \/ (n = 2 /\ state.currentValue[1] = "-")
           THEN next.currentValue = <<"0">>
           ELSE /\ Len(next.currentValue) = n - 1
                /\ \A i \in 1..(n - 1) : next.currentValue[i] = state.currentValue[i]

\* C17 witness: Backspace has cut "-0." to "-0"
WitC17 ==
  /\ batch = NegativeZeroBatch
  /\ done = 3
  /\ state = [initialState EXCEPT !.currentValue = <<"-", "0">>]

(***************************************************************************)
(* calculate on the operands of the reachable states                       *)
(***************************************************************************)
\* the numbers the state holds, as Operator and Equals read them
StateOperands == {parseInput(state.currentValue), parseInput(state.previousValue)}

\* the operands calculate is tried on: the numbers of the state, their
\* negatives and zero
Operands == StateOperands \cup {DNeg(v) : v \in StateOperands} \cup {DZero}

\* C18: for every dividend a, zero, NaN and the infinities included,
\* calculate(a, 0, Divide) returns the error "Cannot divide by zero" with
\* the value 0.
ThmC18 ==
  \A a \in Operands \cup {DNaN, DInf(FALSE), DInf(TRUE)} :
    calculate(a, DZero, "div") = [value |-> DZero, error |-> "Cannot divide by zero"]

\* C18 witness: 0 / 0 = has ended in the error of the division by zero
WitC18 ==
  /\ batch = TypeDigits(<<"0">>) \o PressOperator("div") \o TypeDigits(<<"0">>)
               \o PressEquals
  /\ BatchDone
  /\ state.error = "Cannot divide by zero"
  /\ StateOperands = {DZero}

\* the first and the second operands calculate is tried on: previousValue
\* and currentValue as numbers, and their negatives
FirstOperands ==
  {parseInput(state.previousValue), DNeg(parseInput(state.previousValue))}

SecondOperands ==
  {parseInput(state.currentValue), DNeg(parseInput(state.currentValue))}

\* what calculate returns for the result raw of an operation
ResultOf(raw) ==
  IF DIsFinite(raw) /\ ~DAbsGt(raw, MAX_SAFE_VALUE)
  THEN [value |-> fixFloatingPointPrecision(raw), error |-> Null]
  ELSE [value |-> DZero, error |-> "Number too large"]

\* C19 as stated: for all operands a and b with b # 0 and all four
\* operators, calculate(a, b, op) returns a result without an error.
CexC19 ==
  state.operator # Null =>
    \A a \in FirstOperands, b \in SecondOperands \ {DZero}, op \in Operators :
      calculate(a, b, op).error = Null

\* C19 amended: for all operands a and b with b # 0 and all four operators,
\* calculate(a, b, op) returns no error and the precision-corrected result
\* if the result is finite and at most MAX_SAFE_VALUE in magnitude, and the
\* error "Number too large" with the value 0 otherwise; a result of zero is
\* no error.
ThmC19 ==
  state.operator # Null =>
    \A a \in FirstOperands, b \in SecondOperands \ {DZero}, op \in Operators :
      calculate(a, b, op) = ResultOf(applyOperator(a, b, op))

\* C19 witness: 123456789012345 x 123456789012345 is typed, and calculate
\* returns the overflow error for the two operands
WitC19 ==
  /\ batch = OverflowBatch
  /\ done = Len(batch) - 1
  /\ state.operator = "mul"
  /\ state.currentValue = Fifteen
  /\ calculate(parseInput(state.previousValue), parseInput(state.currentValue),
               "mul") = [value |-> DZero, error |-> "Number too large"]
  /\ calculate(parseInput(state.previousValue), parseInput(state.currentValue),
               "-").error = Null

\* the result of the pending operation, where calculate computes one
PendingResult ==
  applyOperator(parseInput(state.previousValue), parseInput(state.currentValue),
                state.operator)

ResultBelowMinSafe ==
  /\ state.error = Null
  /\ state.operator # Null
  /\ ~(state.operator = "div" /\ parseInput(state.currentValue) = DZero)
  /\ PendingResult.k = "fin"
  /\ PendingResult.neg
  /\ DAbsGt(PendingResult, MIN_SAFE_VALUE)

\* C21: a calculation whose result is below MIN_SAFE_VALUE is reported with
\* the error "Number too small" and with no other error: calculate returns
\* that error, and Equals stores it.
CexC21 ==
  ResultBelowMinSafe =>
    /\ calculate(parseInput(state.previousValue), parseInput(state.currentValue),
                 state.operator).error = "Number too small"
    /\ calculatorReducer(state, Act("EQUALS", "")).error = "Number too small"

(***************************************************************************)
(* The error messages                                                      *)
(***************************************************************************)
\* the standard message strings
StandardMessages ==
  {"Cannot divide by zero", "Number too large", "Number too small",
   "Invalid operator"}

SpecialOperands == {DZero, DNaN, DInf(FALSE), DInf(TRUE)}

\* C23: for all a and b, calculate(a, b, Add) = calculate(b, a, Add) and
\* calculate(a, b, Multiply) = calculate(b, a, Multiply), value and error;
\* a is previousValue, its negative or a special number, b is currentValue
\* or the negative infinity.
ThmC23 ==
  state.operator # Null =>
    \A a \in FirstOperands \cup SpecialOperands,
       b \in {parseInput(state.currentValue), DInf(TRUE)}, op \in {"+", "mul"} :
      calculate(a, b, op) = calculate(b, a, op)

\* C23 witness: 0.1 + 0.2 is typed; the operands differ, and both orders
\* give 0.3
WitC23 ==
  /\ batch = TenthsBatch
  /\ done = Len(batch) - 1
  /\ state.operator = "+"
  /\ state.previousValue = <<"0", ".", "1">>
  /\ state.currentValue = <<"0", ".", "2">>
  /\ calculate(parseInput(state.previousValue), parseInput(state.currentValue),
               "+").value = parseInput(<<"0", ".", "3">>)
  /\ calculate(parseInput(state.currentValue), parseInput(state.previousValue),
               "+").value = parseInput(<<"0", ".", "3">>)

(***************************************************************************)
(* Formatting and parsing back                                             *)
(***************************************************************************)
\* x and y are the same number when rounded to 12 significant digits
SameTo12Digits(x, y) == NumberOfToPrecision(x, 12) = NumberOfToPrecision(y, 12)

\* x is within the safe numeric range
InSafeRange(x) == DIsFinite(x) /\ ~DAbsGt(x, MAX_SAFE_VALUE)

\* C24: for every x within the safe numeric range,
\* parseInput(formatDisplay(x)) equals x up to 12 significant digits; x is
\* the number on the display, which Operator formats and Equals parses back.
CexC24 ==
  InSafeRange(parseInput(state.currentValue)) =>
    SameTo12Digits(parseInput(formatDisplay(parseInput(state.currentValue))),
                   parseInput(state.currentValue))

(***************************************************************************)
(* Sums of short decimals                                                  *)
(***************************************************************************)
\* the number of digits of cs after its decimal point
DecimalPlaces(cs) == IF Includes(cs, ".") THEN Len(cs) - IndexOf(cs, ".") ELSE 0

\* the natural number a string of digits denotes
RECURSIVE DigitsNat(_)
DigitsNat(cs) ==
  IF cs = <<>> THEN 0
  ELSE 10 * DigitsNat(SubSeq(cs, 1, Len(cs) - 1)) + DigitVal(cs[Len(cs)])

RECURSIVE Pow10(_)
Pow10(n) == IF n <= 0 THEN 1 ELSE 10 * Pow10(n - 1)

\* the decimal cs denotes, times 10^d, for d at least the decimal places of cs
Scaled(cs, d) ==
  (IF Head(cs) = "-" THEN 0 - 1 ELSE 1)
    * DigitsNat(SelectSeq(cs, IsDigit)) * Pow10(d - DecimalPlaces(cs))

\* a decimal of at most three digits, as it is typed
IsShortDecimal(cs) == IsNumericString(cs) /\ DigitCount(cs) <= 3

\* the string sum denotes exactly the decimal sum of the decimals a and b
IsExactSum(sum, a, b) ==
  LET d == Max(DecimalPlaces(a), DecimalPlaces(b))
  IN  /\ IsNumericString(sum)
      /\ DecimalPlaces(sum) <= d
      /\ Scaled(sum, d) = Scaled(a, d) + Scaled(b, d)

\* an addition of two short decimals is pending
ShortSumPending ==
  /\ state.error = Null
  /\ state.operator = "+"
  /\ IsShortDecimal(state.previousValue)
  /\ IsShortDecimal(state.currentValue)

\* C25: no floating-point artefacts are visible: when two operands entered
\* as short decimals are added, Equals displays their exact decimal sum.
CexC25 ==
  ShortSumPending =>
    IsExactSum(calculatorReducer(state, Act("EQUALS", "")).currentValue,
               state.previousValue, state.currentValue)

(***************************************************************************)
(* ToggleSign twice                                                        *)
(***************************************************************************)
\* C26: in every reachable non-error state, ToggleSign applied twice yields
\* exactly the state before the two actions.
CexC26 ==
  state.error = Null =>
    calculatorReducer(calculatorReducer(state, Act("TOGGLE_SIGN", "")),
                      Act("TOGGLE_SIGN", "")) = state

(***************************************************************************)
(* Equals with nothing to calculate                                        *)
(***************************************************************************)
\* C27: in every non-error state with no pending operator, the state right
\* after a successful Equals included, Equals leaves the state unchanged.
ThmC27 ==
  (state.error = Null /\ state.operator = Null) =>
    calculatorReducer(state, Act("EQUALS", "")) = state

\* C27 witness: after 5 + = a further handler call has left the state of the
\* first Equals, with the result 10, as it was
WitC27 ==
  /\ batch = RepeatBatch
  /\ BatchDone
  /\ free = MaxTail - 1
  /\ state = [initialState EXCEPT
                !.currentValue = <<"1", "0">>, !.waitingForOperand = TRUE]
  /\ calculatorReducer(state, Act("EQUALS", "")) = state

(***************************************************************************)
(* Handler calls issued back-to-back                                       *)
(***************************************************************************)
\* the left fold of the reducer over a sequence of actions, from initialState
RECURSIVE FoldReducer(_)
FoldReducer(actions) ==
  IF actions = <<>> THEN initialState
  ELSE calculatorReducer(FoldReducer(SubSeq(actions, 1, Len(actions) - 1)),
                         actions[Len(actions)])

\* no handler call has been made besides those of the batch
OnlyBatchCalls ==
  free = IF batch = <<>> THEN MaxFree ELSE IF batch \in Scenarios THEN MaxTail ELSE 0

ChainPending ==
  /\ state.error = Null
  /\ state.operator # Null
  /\ state.previousValue # NullStr
  /\ ~state.waitingForOperand

\* the error the pending operation evaluates to, Null if it has a value
PendingError ==
  calculate(parseInput(state.previousValue), parseInput(state.currentValue),
            state.operator).error

\* C29: when Operator(op2) is pressed with an operator pending and the second
\* operand entered, and the pending operation evaluates to an error, the next
\* state has that error and an empty expression, and currentValue,
\* previousValue, operator and waitingForOperand are unchanged: op2 is not
\* recorded.
ThmC29 ==
  (ChainPending /\ PendingError # Null) =>
    \A op2 \in Operators :
      calculatorReducer(state, Act("OPERATOR", op2))
        = [state EXCEPT !.error = PendingError, !.expression = <<>>]

\* C29 witness: 1000001000000 x 1000001000000 and then + : the product is
\* too large, the error is stored, and the multiplication is still pending
WitC29 ==
  /\ batch = TypeDigits(LongOperand) \o PressOperator("mul")
               \o TypeDigits(LongOperand) \o PressOperator("+")
               \o TypeDigits(<<"1">>) \o PressEquals
  /\ done = Len(batch) - 2
  /\ state.error = "Number too large"
  /\ state.expression = <<>>
  /\ state.currentValue = LongOperand
  /\ state.previousValue = ToExponential(OperandValue(LongOperand), 5)
  /\ state.operator = "mul"
  /\ ~state.waitingForOperand

(***************************************************************************)
(* The expression                                                          *)
(***************************************************************************)
\* C30: in every reachable state in which no operator is pending, the
\* expression is the empty string.
ThmC30 == state.operator = Null => state.expression = <<>>

\* C30 witness: 0.1 + 0.2 = has succeeded; no operator is pending and the
\* expression "0.1 +" is gone
WitC30 ==
  /\ batch = TenthsBatch
  /\ BatchDone
  /\ free = MaxTail
  /\ state.currentValue = <<"0", ".", "3">>
  /\ state.operator = Null
  /\ state.expression = <<>>

(***************************************************************************)
(* The preview of the pending operation                                    *)
(***************************************************************************)
\* C31: in every reachable state with no error and an operator pending, the
\* expression is previousValue, a space and the display symbol of the
\* pending operator.
CexC31 ==
  (state.error = Null /\ state.operator # Null) =>
    state.expression
      = state.previousValue \o <<" ", OPERATOR_SYMBOLS[state.operator]>>

(***************************************************************************)
(* Where errors come from                                                  *)
(***************************************************************************)
\* the actions other than Operator and Equals
EditingActions ==
  {Act("DIGIT", d) : d \in AllDigits}
    \cup {Act("DECIMAL", ""), Act("CLEAR", ""), Act("TOGGLE_SIGN", ""),
          Act("PERCENT", ""), Act("BACKSPACE", "")}

\* C32: only Operator and Equals can introduce an error: in every reachable
\* state without an error, Digit, Decimal, Clear, ToggleSign, Percent and
\* Backspace yield a state without an error.
ThmC32 ==
  state.error = Null =>
    \A action \in EditingActions : calculatorReducer(state, action).error = Null

\* C32 witness: four Percent calls have taken 1 to 1e-8 and no error is set
WitC32 ==
  /\ batch = PercentBatch
  /\ BatchDone
  /\ free = MaxTail
  /\ state.currentValue = <<"1", "e", "-", "8">>
  /\ state.error = Null
  /\ calculatorReducer(state, Act("PERCENT", "")).error = Null

(***************************************************************************)
(* The error state                                                         *)
(***************************************************************************)
\* C33: in every reachable state in which the error is set, previousValue
\* and the pending operator are both present.
ThmC33 ==
  state.error # Null => (state.previousValue # NullStr /\ state.operator # Null)

\* C33 witness: 5 / 0 = has failed, and the state still holds the 5 and the
\* division
WitC33 ==
  /\ batch = DivZeroBatch
  /\ done = Len(batch) - 1
  /\ state.error # Null
  /\ state.previousValue = <<"5">>
  /\ state.operator = "div"
  /\ state.currentValue = <<"0">>

ThmC35 == state.error # "Invalid operator"

\* C35 witness: -123456789012345 x 123456789012345 = has failed with another
\* error, and calculate has the error for an operator outside the four
WitC35 ==
  /\ batch = NegativeOverflowBatch
  /\ BatchDone
  /\ free = MaxTail
  /\ state.operator = "mul"
  /\ state.error = "Number too large"
  /\ calculate(parseInput(state.previousValue), parseInput(state.currentValue),
               "mod").error = "Invalid operator"

(***************************************************************************)
(* Input while an operand is awaited                                       *)
(***************************************************************************)
\* C36: in a non-error state with waitingForOperand true, Digit(d) sets
\* currentValue to exactly d and waitingForOperand to false, and Decimal sets
\* currentValue to "0." and waitingForOperand to false; previousValue,
\* operator, expression and error are unchanged.
ThmC36 ==
  (state.error = Null /\ state.waitingForOperand) =>
    /\ \A d \in AllDigits :
         calculatorReducer(state, Act("DIGIT", d))
           = [state EXCEPT !.currentValue = <<d>>, !.waitingForOperand = FALSE]
    /\ calculatorReducer(state, Act("DECIMAL", ""))
         = [state EXCEPT !.currentValue = <<"0", ".">>,
                         !.waitingForOperand = FALSE]

\* C36 witness: after 5 + = displayed 10, the digit 3 has replaced the
\* display
WitC36 ==
  /\ batch = RepeatBatch
  /\ BatchDone
  /\ free = MaxTail - 1
  /\ state.currentValue = <<"3">>
  /\ ~state.waitingForOperand
  /\ state.previousValue = NullStr
  /\ state.operator = Null
  /\ state.expression = <<>>
  /\ state.error = Null

(***************************************************************************)
(* The result as the seed of the next step                                 *)
(***************************************************************************)
\* the state is the one a successful Equals leaves: no error, no operator
\* pending, and the next operand awaited
AfterEquals ==
  /\ state.error = Null
  /\ state.operator = Null
  /\ state.previousValue = NullStr
  /\ state.waitingForOperand

\* the displayed value as Operator stores it
DisplayedOperand == formatDisplay(parseInput(state.currentValue))

\* C37: after a successful Equals a following Digit starts a new number, and
\* a following Operator(op) takes the displayed result as first operand:
\* previousValue = formatDisplay(parseInput(result)), operator = op,
\* waitingForOperand true, and no calculation is performed.
ThmC37 ==
  AfterEquals =>
    /\ \A d \in AllDigits :
         calculatorReducer(state, Act("DIGIT", d)).currentValue = <<d>>
    /\ \A op \in Operators :
         calculatorReducer(state, Act("OPERATOR", op))
           = [state EXCEPT
                !.previousValue     = DisplayedOperand,
                !.operator          = op,
                !.waitingForOperand = TRUE,
                !.expression        = DisplayedOperand
                                      \o <<" ", OPERATOR_SYMBOLS[op]>>]

\* C37 witness: after 1000000 x 1000000 = an Operator call has taken the
\* result 1.00000e+12 as first operand
WitC37 ==
  /\ batch = TrillionBatch
  /\ BatchDone
  /\ free = MaxTail - 1
  /\ state.operator # Null
  /\ state.currentValue = <<"1", ".", "0", "0", "0", "0", "0", "e", "+", "1", "2">>
  /\ state.previousValue = state.currentValue
  /\ state.waitingForOperand
  /\ state.error = Null

(***************************************************************************)
(* The value of an error result                                            *)
(***************************************************************************)
\* a CalculationResult with an error carries the value 0
ErrorCarriesZero(result) == result.error # Null => result.value = DZero

\* C38: every CalculationResult calculate returns has the error absent, or
\* the error set together with the value 0; the operands are previousValue
\* or the infinity and currentValue or zero, the operators the four declared
\* and one that is not.
ThmC38 ==
  state.operator # Null =>
    \A a \in {parseInput(state.previousValue), DInf(FALSE)},
       b \in {parseInput(state.currentValue), DZero},
       op \in Operators \cup {"mod"} :
      ErrorCarriesZero(calculate(a, b, op))

\* C38 witness: 7 / 0 = has failed, and calculate returns the error of the
\* division by zero with the value 0
WitC38 ==
  /\ batch = TypeDigits(<<"7">>) \o PressOperator("div") \o TypeDigits(<<"0">>)
               \o PressEquals
  /\ BatchDone
  /\ state.error = "Cannot divide by zero"
  /\ calculate(parseInput(state.previousValue), parseInput(state.currentValue),
               state.operator)
       = [value |-> DZero, error |-> "Cannot divide by zero"]

=============================================================================
